---- MODULE Spec2Model ----
(***************************************************************************)
(* Model of sql-executor/sql_executor.py: the connection manager, the      *)
(* file scan and natural sort, the three transaction-mode workflows, the   *)
(* orchestrator execute_sql_scripts_in_dir and the __main__ entry point.   *)
(* The database and the psycopg2 connection are modelled by the record db: *)
(* which handle the workflow holds, whether it is closed, its transaction  *)
(* status, the files whose statements sit in the open transaction and the  *)
(* files whose effects are durable.                                        *)
(***************************************************************************)
EXTENDS Integers, Sequences, FiniteSets, TLC

VARIABLES mode, caller, is_dir, fs,
          pc, db, cursor, results, sorted_sql_files, idx,
          ret, exitStatus, activeConn, report, hist,
          call

vars == <<mode, caller, is_dir, fs, pc, db, cursor, results,
          sorted_sql_files, idx, ret, exitStatus, activeConn, report, hist,
          call>>

\* the variables of a run of the program
run == <<mode, caller, is_dir, fs, pc, db, cursor, results,
         sorted_sql_files, idx, ret, exitStatus, activeConn, report, hist>>

inputs == <<mode, caller, is_dir, fs>>

(***************************************************************************)
(* Bounds of the model.                                                    *)
(***************************************************************************)
\* how many of the path names of PathList exist in the script directory
MaxFiles == 3
\* how many environment faults (connection losses, failed commits, a failed
\* write of the report) one run sees
MaxFaults == 2
\* how many recoverable failures precede the outcome of a connect_db call
MaxRetries == 1

(***************************************************************************)
(* Program constants.                                                      *)
(***************************************************************************)
\* connect_db(params, attempt_limit=5, delay=3)
attempt_limit == 5
\* psycopg2.extensions.TRANSACTION_STATUS_* as compared in _attempt_rollback
TRANSACTION_STATUS_IDLE == 0
TRANSACTION_STATUS_INTRANS == 2
\* the literal 3 of _attempt_rollback: TRANSACTION_STATUS_INERROR
TRANSACTION_STATUS_INERROR == 3
TRANSACTION_STATUS_UNKNOWN == 4

Min(a, b) == IF a < b THEN a ELSE b

(***************************************************************************)
(* Paths.  A path is the sequence of the characters of its posix form.     *)
(***************************************************************************)
Digits == {"0", "1", "2"}
DigitVal(c) == CASE c = "0" -> 0 [] c = "1" -> 1 [] c = "2" -> 2
\* code points, the order Python compares str by
Ord(c) == CASE c = "0" -> 48 [] c = "1" -> 49 [] c = "2" -> 50
            [] c = "f" -> 102

PathList == << <<"f", "1">>, <<"f", "2">>, <<"f", "1", "0">>, <<"f", "0", "1">> >>
Paths == {PathList[i] : i \in 1..Min(MaxFiles, Len(PathList))}

\* what the filesystem holds at a path ending in .sql
FileKinds == {"ok", "bad", "empty", "unreadable"}
FsKinds == FileKinds \cup {"absent", "anomaly"}

\* what sql_dir.is_dir() does: it returns True or False, or raises (a name
\* the system refuses, a parent that may not be searched, a sql_dir that is
\* not a Path)
IsDirOutcomes == {"True", "False", "raise"}

Modes == {"per-file", "per-file-until-error", "all-or-nothing"}
\* "unknown" is any other string, "None" is transaction_mode=None
AllModes == Modes \cup {"unknown", "None"}

(***************************************************************************)
(* natsort.natsorted: the key of a string is the tuple of its non-numeric  *)
(* segments and the integer values of its digit runs; sorted() is stable.  *)
(***************************************************************************)
RECURSIVE DigitRun(_, _)
\* length of the run of digits of s starting at position i
DigitRun(s, i) ==
  IF i > Len(s) \/ s[i] \notin Digits THEN 0 ELSE 1 + DigitRun(s, i + 1)

RECURSIVE TextRun(_, _)
TextRun(s, i) ==
  IF i > Len(s) \/ s[i] \in Digits THEN 0 ELSE 1 + TextRun(s, i + 1)

RECURSIVE IntOf(_, _)
\* int() of the digit string s, acc the value read so far
IntOf(s, acc) ==
  IF s = <<>> THEN acc ELSE IntOf(Tail(s), 10 * acc + DigitVal(Head(s)))

RECURSIVE NatKeyFrom(_, _)
NatKeyFrom(s, i) ==
  IF i > Len(s) THEN <<>>
  ELSE IF s[i] \in Digits
       THEN LET n == DigitRun(s, i)
            IN  <<[num |-> TRUE, n |-> IntOf(SubSeq(s, i, i + n - 1), 0), s |-> <<>>]>>
                  \o NatKeyFrom(s, i + n)
       ELSE LET n == TextRun(s, i)
            IN  <<[num |-> FALSE, n |-> 0, s |-> SubSeq(s, i, i + n - 1)]>>
                  \o NatKeyFrom(s, i + n)

\* the key starts with a string: '' is put before a leading number
NatKey(s) ==
  IF s # <<>> /\ s[1] \in Digits
  THEN <<[num |-> FALSE, n |-> 0, s |-> <<>>]>> \o NatKeyFrom(s, 1)
  ELSE NatKeyFrom(s, 1)

RECURSIVE StrLess(_, _)
\* Python's a < b on str
StrLess(a, b) ==
  IF b = <<>> THEN FALSE
  ELSE IF a = <<>> THEN TRUE
  ELSE IF Ord(Head(a)) # Ord(Head(b)) THEN Ord(Head(a)) < Ord(Head(b))
  ELSE StrLess(Tail(a), Tail(b))

TokLess(x, y) == IF x.num THEN x.n < y.n ELSE StrLess(x.s, y.s)

RECURSIVE KeyLess(_, _)
\* Python's a < b on the key tuples
KeyLess(a, b) ==
  IF b = <<>> THEN FALSE
  ELSE IF a = <<>> THEN TRUE
  ELSE IF Head(a) # Head(b) THEN TokLess(Head(a), Head(b))
  ELSE KeyLess(Tail(a), Tail(b))

NatLess(p, q) == KeyLess(NatKey(p), NatKey(q))

\* sorted() on the keys: p comes before q when its key is less, and elements
\* of equal keys keep the order they had in the input (the sort is stable)
natsorted(s) ==
  LET before(i, j) == NatLess(s[i], s[j]) \/ (~NatLess(s[j], s[i]) /\ i < j)
      rank(i) == Cardinality({j \in 1..Len(s) : before(j, i)}) + 1
  IN  [k \in 1..Len(s) |-> s[CHOOSE i \in 1..Len(s) : rank(i) = k]]

\* Python's a < b on two pathlib paths of one directory: the order of their
\* strings
PathLess(p, q) == StrLess(p, q)

\* sorted() on the Path objects themselves
sorted_paths(s) ==
  LET before(i, j) == PathLess(s[i], s[j]) \/ (~PathLess(s[j], s[i]) /\ i < j)
      rank(i) == Cardinality({j \in 1..Len(s) : before(j, i)}) + 1
  IN  [k \in 1..Len(s) |-> s[CHOOSE i \in 1..Len(s) : rank(i) = k]]

\* natsorted(anomalies), called without a key on Path objects: what the
\* call may return.  natsort either takes a Path for its string, and the
\* order is that of natsorted with the as_posix key, or finds no string in
\* it and leaves the Path objects to compare themselves.
natsorted_no_key(s) == {natsorted(s), sorted_paths(s)}

Range(s) == {s[i] : i \in 1..Len(s)}
\* the orders os.walk may list the set S in
WalkOrders(S) ==
  {s \in [1..Cardinality(S) -> S] : \A i, j \in 1..Cardinality(S) : i # j => s[i] # s[j]}

(***************************************************************************)
(* connect_db.  outcomes[i] is what the i-th psycopg2.connect does: "ok",  *)
(* "op" (OperationalError) or "fatal" (any other exception).               *)
(***************************************************************************)
ConnOutcomes == {"ok", "op", "fatal"}

\* mutant: the delay is slept after the last attempt too
SleepAfterEvery(attempt, sleeps) == sleeps + 1
\* except psycopg2.OperationalError: time.sleep(delay) if attempt < attempt_limit
SleepAfter(attempt, sleeps) ==
  IF attempt < attempt_limit THEN sleeps + 1 ELSE sleeps

RECURSIVE ConnectLoop(_, _, _)
\* mutant: an unexpected error is retried like a recoverable one
AbortConnectRetries(attempt, outcomes, sleeps) ==
  ConnectLoop(attempt + 1, outcomes, sleeps)
\* except Exception: break, then return None
AbortConnect(attempt, outcomes, sleeps) ==
  [ok |-> FALSE, attempts |-> attempt, sleeps |-> sleeps]

ConnectLoop(attempt, outcomes, sleeps) ==
  IF attempt > attempt_limit
  THEN [ok |-> FALSE, attempts |-> attempt - 1, sleeps |-> sleeps]
  ELSE CASE outcomes[attempt] = "ok" ->
              [ok |-> TRUE, attempts |-> attempt, sleeps |-> sleeps]
         [] outcomes[attempt] = "op" ->
              ConnectLoop(attempt + 1, outcomes, SleepAfter(attempt, sleeps))
         [] OTHER -> AbortConnect(attempt, outcomes, sleeps)

connect_db(outcomes) == ConnectLoop(1, outcomes, 0)

\* k recoverable failures, then last, then successes
Script(k, last) ==
  [i \in 1..attempt_limit |-> IF i <= k THEN "op" ELSE IF i = k + 1 THEN last ELSE "ok"]
ConnScripts ==
  {Script(k, last) : k \in 0..Min(MaxRetries, attempt_limit - 1), last \in {"ok", "fatal"}}
    \cup {[i \in 1..attempt_limit |-> "op"]}
AllOk == Script(0, "ok")

(***************************************************************************)
(* The connection handle and the database behind it.                       *)
(*   conn      the handle the workflow holds: 0 is None, else the number   *)
(*             of the connection                                           *)
(*   closed    conn.closed                                                 *)
(*   status    conn.get_transaction_status()                               *)
(*   pending   the files whose statements are in the open transaction      *)
(*   durable   the files whose effects are committed                       *)
(*   lastId    the number of connections opened so far                     *)
(*   openConns the connections opened and not closed or lost               *)
(***************************************************************************)
NoConn == [conn |-> 0, closed |-> TRUE, status |-> TRANSACTION_STATUS_UNKNOWN,
           pending |-> {}, durable |-> {}, lastId |-> 0, openConns |-> {}]

\* psycopg2.connect succeeded: a fresh connection, idle, nothing pending
NewConn(d) ==
  [d EXCEPT !.conn = d.lastId + 1, !.closed = FALSE,
            !.status = TRANSACTION_STATUS_IDLE, !.pending = {},
            !.lastId = d.lastId + 1, !.openConns = @ \cup {d.lastId + 1}]

\* the connection breaks or is closed: its uncommitted work is gone
CloseConn(d) ==
  [d EXCEPT !.closed = TRUE, !.status = TRANSACTION_STATUS_UNKNOWN,
            !.pending = {}, !.openConns = @ \ {d.conn}]

Usable(d) == d.conn # 0 /\ ~d.closed

NoCursor == [conn |-> 0, closed |-> TRUE]
\* cursor and not cursor.closed
CursorOpen(c) == c.conn # 0 /\ ~c.closed
\* cursor.closed reads True once the connection of the cursor is closed
CursorOfClosed(c, d) == IF c.conn = d.conn THEN [c EXCEPT !.closed = TRUE] ELSE c

\* what the environment does to one statement batch, commit or rollback
ExecOutcomes == {"ok", "lost"}
CommitOutcomes == {"ok", "fail", "lost"}
RollbackOutcomes == {"ok", "fail"}

(***************************************************************************)
(* A frame is the part of the state a workflow step reads and writes:      *)
(* [db, cursor, results, hist, used]; used collects the names of the       *)
(* environment inputs the step consumed.                                   *)
(***************************************************************************)
Use(X, name) == [X EXCEPT !.used = @ \cup {name}]
Note(X, f, what) == [X EXCEPT !.hist.ev[f] = what]

\* mutant: _ensure_connection reconnects whatever the state of the connection
EnsureConnectionAlways(X, cs) ==
  LET r == connect_db(cs)
      d == IF r.ok THEN NewConn(X.db)
           ELSE [X.db EXCEPT !.conn = 0, !.closed = TRUE]
  IN  [Use(X, "cs") EXCEPT !.db = d, !.hist.connects = @ + 1,
                           !.hist.reconnects = @ + 1,
                           !.hist.exhausted = @ \/ ~r.ok,
                           !.hist.overLimit = @ \/ r.attempts > attempt_limit]

\* _ensure_connection(current_conn, params)
EnsureConnection(X, cs) ==
  IF Usable(X.db)
  THEN X
  ELSE LET r == connect_db(cs)
           d == IF r.ok THEN NewConn(X.db)
                ELSE [X.db EXCEPT !.conn = 0, !.closed = TRUE]
       IN  [Use(X, "cs") EXCEPT !.db = d, !.hist.connects = @ + 1,
                                !.hist.reconnects = @ + 1,
                                !.hist.exhausted = @ \/ ~r.ok,
                                !.hist.overLimit = @ \/ r.attempts > attempt_limit]

\* mutant: a file that cannot be read is taken for an empty one
ReadSqlFileSwallowsError(kind) ==
  CASE kind \in {"unreadable", "empty"} -> "none"
    [] OTHER -> "script"
\* _read_sql_file: "raise" on OSError or UnicodeDecodeError, "none" on
\* empty or all-whitespace content, else the script is returned
ReadSqlFile(kind) ==
  CASE kind = "unreadable" -> "raise"
    [] kind = "empty" -> "none"
    [] OTHER -> "script"

\* cursor.execute through _execute_sql; TRUE in raised is a psycopg2.Error
\* (hist.staleExec records a call on a cursor of another connection than the
\* one held)
ExecuteSql(X, f, kind, eo) ==
  LET X1 == [X EXCEPT !.hist.executed = Append(@, f),
                      !.hist.staleExec = @ \/ X.cursor.conn # X.db.conn]
  IN  IF ~CursorOpen(X.cursor) \/ X.cursor.conn # X.db.conn \/ X.db.closed
      THEN \* the cursor's connection is closed: InterfaceError
           [x |-> X1, raised |-> TRUE]
      ELSE IF eo = "lost"
      THEN [x |-> [Use(X1, "eo") EXCEPT !.db = CloseConn(@),
                                        !.cursor = CursorOfClosed(@, X.db),
                                        !.hist.faults = @ + 1],
            raised |-> TRUE]
      ELSE IF X.db.status = TRANSACTION_STATUS_INERROR
      THEN \* current transaction is aborted
           [x |-> Use(X1, "eo"), raised |-> TRUE]
      ELSE IF kind = "bad"
      THEN [x |-> [Use(X1, "eo") EXCEPT !.db.status = TRANSACTION_STATUS_INERROR],
            raised |-> TRUE]
      ELSE [x |-> [Use(X1, "eo") EXCEPT !.db.status = TRANSACTION_STATUS_INTRANS,
                                        !.db.pending = @ \cup {f}],
            raised |-> FALSE]

\* conn.commit(), as _attempt_commit and the final commit call it
Commit(X, co) ==
  LET X1 == [X EXCEPT !.hist.commits = @ + 1]
  IN  IF X.db.closed
      THEN [x |-> X1, raised |-> TRUE]
      ELSE IF co = "lost"
      THEN [x |-> [Use(X1, "co") EXCEPT !.db = CloseConn(@),
                                        !.cursor = CursorOfClosed(@, X.db),
                                        !.hist.faults = @ + 1],
            raised |-> TRUE]
      ELSE IF co = "fail"
      THEN \* the server refuses the commit and ends the transaction
           [x |-> [Use(X1, "co") EXCEPT !.db.status = TRANSACTION_STATUS_IDLE,
                                        !.db.pending = {}, !.hist.faults = @ + 1],
            raised |-> TRUE]
      ELSE [x |-> [Use(X1, "co") EXCEPT
                     !.db.status = TRANSACTION_STATUS_IDLE,
                     !.db.pending = {},
                     !.db.durable = IF X.db.status = TRANSACTION_STATUS_INERROR
                                    THEN @ ELSE @ \cup X.db.pending],
            raised |-> FALSE]

\* mutant: a commit that raises is logged and not re-raised
_attempt_commit_swallows(X, co) == [Commit(X, co) EXCEPT !.raised = FALSE]
\* _attempt_commit(conn, sql_file_path, mode): logs and re-raises
_attempt_commit(X, co) == Commit(X, co)

\* mutant: conn.rollback() is issued whatever the transaction status
_attempt_rollback_any_status(X, ro) ==
  LET X1 == [X EXCEPT !.hist.rollbackCalls = @ + 1]
  IN  IF Usable(X.db)
      THEN IF ro = "ok"
           THEN [Use(X1, "ro") EXCEPT !.db.status = TRANSACTION_STATUS_IDLE,
                                      !.db.pending = {},
                                      !.hist.rollbacks = @ + 1]
           ELSE [Use(X1, "ro") EXCEPT !.hist.rollbacks = @ + 1,
                                      !.hist.rollbackFailed = TRUE]
      ELSE X1

\* _attempt_rollback(conn, context_msg): never raises
_attempt_rollback(X, ro) ==
  LET X1 == [X EXCEPT !.hist.rollbackCalls = @ + 1]
  IN  IF Usable(X.db)
      THEN IF X.db.status = TRANSACTION_STATUS_INTRANS \/ X.db.status = 3
           THEN IF ro = "ok"
                THEN [Use(X1, "ro") EXCEPT !.db.status = TRANSACTION_STATUS_IDLE,
                                           !.db.pending = {},
                                           !.hist.rollbacks = @ + 1]
                ELSE \* conn.rollback() raised: logged, nothing changes
                     [Use(X1, "ro") EXCEPT !.hist.rollbacks = @ + 1,
                                           !.hist.rollbackFailed = TRUE]
           ELSE X1
      ELSE X1

(***************************************************************************)
(* The three workflows.  Each operator is one pass of the loop body over   *)
(* the file f of content kind, under the environment inputs in:            *)
(*   in.cs the outcomes of the connection attempts of a reconnect,         *)
(*   in.eo, in.co, in.ro what execute, commit and rollback meet.           *)
(* The result is the frame after the pass and brk, TRUE when the loop is   *)
(* left by break.                                                          *)
(***************************************************************************)
Load(X, f) == [X EXCEPT !.hist.loaded = Append(@, f)]
OpenCursor(X) == [X EXCEPT !.cursor = [conn |-> X.db.conn, closed |-> FALSE]]
\* the finally clause of the per-file loops
CloseCursor(X) == [X EXCEPT !.cursor.closed = TRUE]
AddProcessed(X, f) == [X EXCEPT !.results.processed = Append(@, f)]
AddError(X, f) == [X EXCEPT !.results.errors = Append(@, f)]
AddEmpty(X, f) == [X EXCEPT !.results.empty_files = Append(@, f)]
SetFatal(X) == [X EXCEPT !.results.fatal_error_occurred = TRUE]
SetFailed(X) == [X EXCEPT !.results.failed_all_or_nothing = TRUE]

\* _process_per_file: the handlers of the loop body
\* mutant: the loop goes on to the next file when no connection could be had
PerFileNoConnContinues(X, f) ==
  [x |-> Note(SetFatal(X), f, "conn_fail"), brk |-> FALSE]
PerFileNoConn(X, f) ==
  [x |-> Note(SetFatal(X), f, "conn_fail"), brk |-> TRUE]
PerFileReadError(X, f) ==
  [x |-> Note(AddError(X, f), f, "read_err"), brk |-> FALSE]
\* mutant: a database error of one file halts the per-file loop
PerFileDbErrorHalts(X, f, what, ro) ==
  [x |-> CloseCursor(_attempt_rollback(SetFatal(Note(AddError(X, f), f, what)), ro)),
   brk |-> TRUE]
PerFileDbError(X, f, what, ro) ==
  [x |-> CloseCursor(_attempt_rollback(Note(AddError(X, f), f, what), ro)),
   brk |-> FALSE]

_process_per_file(X, f, kind, in) ==
  LET X1 == EnsureConnection(X, in.cs)
  IN  IF X1.db.conn = 0 THEN PerFileNoConn(X1, f)
      ELSE LET X2 == Load(X1, f)
               rd == ReadSqlFile(kind)
           IN  IF rd = "raise" THEN PerFileReadError(X2, f)
               ELSE IF rd = "none"
               THEN [x |-> Note(AddEmpty(X2, f), f, "empty"), brk |-> FALSE]
               ELSE LET e == ExecuteSql(OpenCursor(X2), f, kind, in.eo)
                    IN  IF e.raised THEN PerFileDbError(e.x, f, "exec_err", in.ro)
                        ELSE LET c == _attempt_commit(e.x, in.co)
                             IN  IF c.raised
                                 THEN PerFileDbError(c.x, f, "commit_err", in.ro)
                                 ELSE [x |-> CloseCursor(
                                               Note(AddProcessed(c.x, f), f, "committed")),
                                       brk |-> FALSE]

\* _process_per_file_until_error: the handlers of the loop body
UntilErrorNoConn(X, f) ==
  [x |-> Note(AddError(SetFatal(X), f), f, "conn_fail"), brk |-> TRUE]
UntilErrorReadError(X, f, ro) ==
  [x |-> _attempt_rollback(SetFatal(Note(AddError(X, f), f, "read_err")), ro),
   brk |-> TRUE]
\* mutant: the loop goes on after a database error
UntilErrorDbErrorContinues(X, f, what, ro) ==
  [x |-> CloseCursor(_attempt_rollback(SetFatal(Note(AddError(X, f), f, what)), ro)),
   brk |-> FALSE]
\* mutant: the loop halts on a database error without a rollback
UntilErrorDbErrorNoRollback(X, f, what, ro) ==
  [x |-> CloseCursor(SetFatal(Note(AddError(X, f), f, what))), brk |-> TRUE]
UntilErrorDbError(X, f, what, ro) ==
  [x |-> CloseCursor(_attempt_rollback(SetFatal(Note(AddError(X, f), f, what)), ro)),
   brk |-> TRUE]

_process_per_file_until_error(X, f, kind, in) ==
  LET X1 == EnsureConnection(X, in.cs)
  IN  IF X1.db.conn = 0 THEN UntilErrorNoConn(X1, f)
      ELSE LET X2 == Load(X1, f)
               rd == ReadSqlFile(kind)
           IN  IF rd = "raise" THEN UntilErrorReadError(X2, f, in.ro)
               ELSE IF rd = "none"
               THEN [x |-> Note(AddEmpty(X2, f), f, "empty"), brk |-> FALSE]
               ELSE LET e == ExecuteSql(OpenCursor(X2), f, kind, in.eo)
                    IN  IF e.raised THEN UntilErrorDbError(e.x, f, "exec_err", in.ro)
                        ELSE LET c == _attempt_commit(e.x, in.co)
                             IN  IF c.raised
                                 THEN UntilErrorDbError(c.x, f, "commit_err", in.ro)
                                 ELSE [x |-> CloseCursor(
                                               Note(AddProcessed(c.x, f), f, "committed")),
                                       brk |-> FALSE]

\* _process_all_or_nothing: the handlers of the loop body
AllOrNothingNoConn(X, f, ro) ==
  [x |-> _attempt_rollback(
           Note(AddError(SetFailed(SetFatal(X)), f), f, "conn_fail"), ro),
   brk |-> TRUE]
\* mutant: the loop goes on after the error
AllOrNothingErrorContinues(X, f, what, ro) ==
  [x |-> _attempt_rollback(
           SetFailed(SetFatal(Note(AddError(X, f), f, what))), ro),
   brk |-> FALSE]
AllOrNothingError(X, f, what, ro) ==
  [x |-> _attempt_rollback(
           SetFailed(SetFatal(Note(AddError(X, f), f, what))), ro),
   brk |-> TRUE]

_process_all_or_nothing(X, f, kind, in) ==
  LET X1 == EnsureConnection(X, in.cs)
  IN  IF X1.db.conn = 0 THEN AllOrNothingNoConn(X1, f, in.ro)
      ELSE LET X2 == Load(X1, f)
               rd == ReadSqlFile(kind)
           IN  IF rd = "raise" THEN AllOrNothingError(X2, f, "read_err", in.ro)
               ELSE IF rd = "none"
               THEN [x |-> Note(AddEmpty(X2, f), f, "empty"), brk |-> FALSE]
               ELSE LET e == ExecuteSql(X2, f, kind, in.eo)
                    IN  IF e.raised THEN AllOrNothingError(e.x, f, "exec_err", in.ro)
                        ELSE [x |-> Note(AddProcessed(e.x, f), f, "executed"),
                              brk |-> FALSE]

\* the setup of _process_all_or_nothing: cursor = conn.cursor(), and the
\* outer handler when that raises on a closed connection
AllOrNothingSetup(X, ro) ==
  IF Usable(X.db) THEN OpenCursor(X)
  ELSE _attempt_rollback(SetFailed(SetFatal(X)), ro)

(***************************************************************************)
(* The state machine.                                                      *)
(*   pc: main -> orch -> scanning -> dispatch -> executing -> finalizing   *)
(*        -> finally -> returned -> done                                   *)
(*   caller "main" is the __main__ block; caller "direct" is a caller that *)
(*   hands execute_sql_scripts_in_dir a connection (or None) itself.       *)
(***************************************************************************)
NoResults ==
  [processed |-> <<>>, file_anomalies |-> <<>>, errors |-> <<>>,
   empty_files |-> <<>>, unprocessed_files |-> <<>>,
   fatal_error_occurred |-> FALSE, failed_all_or_nothing |-> FALSE]

NoHist ==
  [connects |-> 0, reconnects |-> 0, commits |-> 0, rollbackCalls |-> 0,
   rollbacks |-> 0, rollbackFailed |-> FALSE, loaded |-> <<>>, executed |-> <<>>,
   ev |-> [p \in Paths |-> "none"], faults |-> 0, exhausted |-> FALSE,
   scanned |-> FALSE, gated |-> FALSE, finalCommit |-> "none",
   summary |-> FALSE, staleExec |-> FALSE, orchError |-> FALSE,
   overLimit |-> FALSE, reporting |-> FALSE]

\* the listings of the report
Categories ==
  {"processed", "file_anomalies", "errors", "empty_files", "unprocessed_files"}
\* the order they are written in
WriteOrder ==
  <<"processed", "file_anomalies", "errors", "empty_files", "unprocessed_files">>
\* the text "None"
Placeholder == <<"N", "o", "n", "e">>

\* no listing is written: no file has a body (the body of a listing is the
\* text under its header and rule, a sequence of characters)
NoReport ==
  [written |-> FALSE, processed_type |-> "none",
   listings |-> [c \in Categories |-> <<>>]]

\* call holds one call of a function taken alone (SpecConnect, SpecSort,
\* SpecRollback); no such call is traced in a run of the program
NoCall == [fn |-> "none"]

ValidFiles == {p \in Paths : fs[p] \in FileKinds}
Anomalies == {p \in Paths : fs[p] = "anomaly"}

Init ==
  /\ mode \in AllModes
  /\ caller \in {"main", "direct"}
  /\ is_dir \in IsDirOutcomes
  /\ fs \in [Paths -> FsKinds]
  /\ is_dir # "True" => \A p \in Paths : fs[p] = "absent"
  /\ pc = IF caller = "main" THEN "main" ELSE "orch"
  /\ db \in IF caller = "main" THEN {NoConn} ELSE {NoConn, NewConn(NoConn)}
  /\ cursor = NoCursor
  /\ results = NoResults
  /\ sorted_sql_files = <<>>
  /\ idx = 1
  /\ ret = "none"
  /\ exitStatus = -1
  /\ activeConn = 0
  /\ report = NoReport
  /\ hist = NoHist
  /\ call = NoCall

Frame == [db |-> db, cursor |-> cursor, results |-> results, hist |-> hist, used |-> {}]

Inputs == [cs : ConnScripts, eo : ExecOutcomes, co : CommitOutcomes, ro : RollbackOutcomes]
DefaultInput == [cs |-> AllOk, eo |-> "ok", co |-> "ok", ro |-> "ok"]
\* an input the step did not consume has its default value
Canonical(in, used) ==
  \A name \in {"cs", "eo", "co", "ro"} : name \notin used => in[name] = DefaultInput[name]

Install(X) ==
  /\ X.hist.faults <= MaxFaults
  /\ db' = X.db
  /\ cursor' = X.cursor
  /\ results' = X.results
  /\ hist' = X.hist

\* __main__: parse_args, then the initial connect_db(DB_PARAMS)
MainStart ==
  /\ pc = "main"
  /\ IF mode \notin Modes
     THEN \* argparse rejects a mode outside choices: sys.exit(2)
          /\ exitStatus' = 2
          /\ pc' = "done"
          /\ UNCHANGED <<db, activeConn, hist>>
     ELSE \E cs \in ConnScripts :
            LET r == connect_db(cs)
                d == IF r.ok THEN NewConn(db) ELSE db
            IN  /\ db' = d
                /\ activeConn' = d.conn
                /\ hist' = [hist EXCEPT !.connects = @ + 1,
                                        !.overLimit = @ \/ r.attempts > attempt_limit]
                /\ IF r.ok
                   THEN pc' = "orch" /\ UNCHANGED exitStatus
                   ELSE pc' = "done" /\ exitStatus' = 1
  /\ UNCHANGED <<inputs, call, cursor, results, sorted_sql_files, idx, ret, report>>

\* except Exception as e, the handler of the orchestrator's try block:
\* fatal_error_occurred is set, _attempt_rollback is called on the connection
\* the orchestrator holds, and results is returned
OrchestrationError(X, ro) ==
  _attempt_rollback([SetFatal(X) EXCEPT !.hist.orchError = TRUE], ro)

\* execute_sql_scripts_in_dir: the checks before the scan
OrchEnter ==
  /\ pc = "orch"
  /\ IF db.conn = 0
     THEN \* if not conn: return False, before the try block
          /\ ret' = "False" /\ pc' = "returned"
          /\ UNCHANGED <<db, cursor, results, hist>>
     ELSE IF is_dir = "raise"
     THEN \E ro \in RollbackOutcomes :
            LET X == OrchestrationError(Frame, ro)
            IN  /\ Canonical([DefaultInput EXCEPT !.ro = ro], X.used)
                /\ Install(X)
                /\ ret' = "dict" /\ pc' = "finally"
     ELSE IF is_dir = "False"
     THEN /\ ret' = "False" /\ pc' = "finally"
          /\ UNCHANGED <<db, cursor, results, hist>>
     ELSE /\ ret' = ret /\ pc' = "scanning"
          /\ UNCHANGED <<db, cursor, results, hist>>
  /\ UNCHANGED <<inputs, call, sorted_sql_files, idx, exitStatus, activeConn, report>>

\* mutant: only all-or-nothing mode is gated
GateModesAllOrNothingOnly == {"all-or-nothing"}
\* mutant: every mode is gated
GateModesEvery == Modes

\* the anomaly gate: the anomalies are promoted into errors
AnomalyGate(res) ==
  [res EXCEPT !.fatal_error_occurred = TRUE,
              !.errors = @ \o res.file_anomalies]
GateModes == {"all-or-nothing", "per-file-until-error"}

\* collect_file_paths, the anomaly gate, the sort of the valid files
Scan ==
  /\ pc = "scanning"
  /\ \E wv \in WalkOrders(ValidFiles), wa \in WalkOrders(Anomalies) :
     \E fa \in natsorted_no_key(wa) :
       LET res == [results EXCEPT !.file_anomalies = fa]
       IN  IF Len(wa) > 0 /\ mode \in GateModes
           THEN /\ results' = AnomalyGate(res)
                /\ ret' = "dict"
                /\ pc' = "finally"
                /\ hist' = [hist EXCEPT !.scanned = TRUE, !.gated = TRUE]
                /\ UNCHANGED sorted_sql_files
           ELSE /\ results' = res
                /\ sorted_sql_files' = natsorted(wv)
                /\ hist' = [hist EXCEPT !.scanned = TRUE]
                /\ IF wv = <<>>
                   THEN ret' = "True" /\ pc' = "finally"
                   ELSE ret' = ret /\ pc' = "dispatch"
  /\ UNCHANGED <<inputs, call, db, cursor, idx, exitStatus, activeConn, report>>

\* the dispatch on transaction_mode, up to the first pass of the loop
Dispatch ==
  /\ pc = "dispatch"
  /\ CASE mode \in {"per-file", "per-file-until-error"} ->
            /\ pc' = "executing"
            /\ UNCHANGED <<db, cursor, results, hist, ret>>
       [] mode = "all-or-nothing" ->
            \E ro \in RollbackOutcomes :
              LET X == AllOrNothingSetup(Frame, ro)
              IN  /\ Canonical([DefaultInput EXCEPT !.ro = ro], X.used)
                  /\ Install(X)
                  /\ pc' = IF X.results.fatal_error_occurred
                           THEN "finalizing" ELSE "executing"
                  /\ UNCHANGED ret
       [] OTHER ->
            /\ results' = [results EXCEPT !.fatal_error_occurred = TRUE]
            /\ ret' = "False"
            /\ pc' = "finally"
            /\ UNCHANGED <<db, cursor, hist>>
  /\ idx' = 1
  /\ UNCHANGED <<inputs, call, sorted_sql_files, exitStatus, activeConn, report>>

\* mutant: the loop stays on the file it has just worked on
NextIndexStays(i) == i
\* for sql_file_path in sorted_sql_files: the next file of the list
NextIndex(i) == i + 1

\* the loop body of the workflow of mode m
LoopBody(m, X, f, kind, in) ==
  CASE m = "per-file" -> _process_per_file(X, f, kind, in)
    [] m = "per-file-until-error" -> _process_per_file_until_error(X, f, kind, in)
    [] m = "all-or-nothing" -> _process_all_or_nothing(X, f, kind, in)

RECURSIVE RunLoop(_, _, _, _)
\* the rest of the loop of mode m from the file at position i on, when
\* every pass meets the inputs in; the frame it ends with
RunLoop(m, X, i, in) ==
  IF i > Len(sorted_sql_files) THEN X
  ELSE LET f == sorted_sql_files[i]
           r == LoopBody(m, X, f, fs[f], in)
       IN  IF r.brk THEN r.x ELSE RunLoop(m, r.x, i + 1, in)

\* one pass of the loop of the workflow of mode m over sorted_sql_files[idx]
LoopPass(m) ==
  /\ mode = m
  /\ pc = "executing"
  /\ idx <= Len(sorted_sql_files)
  /\ \E in \in Inputs :
       /\ in.cs # AllOk => ~Usable(db)
       /\ LET f == sorted_sql_files[idx]
              r == LoopBody(m, Frame, f, fs[f], in)
          IN  /\ Canonical(in, r.x.used)
              /\ Install(r.x)
              /\ pc' = IF r.brk \/ idx = Len(sorted_sql_files)
                       THEN "finalizing" ELSE "executing"
  /\ idx' = NextIndex(idx)
  /\ UNCHANGED <<inputs, call, sorted_sql_files, ret, exitStatus, activeConn, report>>

PerFileStep == LoopPass("per-file")
UntilErrorStep == LoopPass("per-file-until-error")
AllOrNothingStep == LoopPass("all-or-nothing")

\* mutant: a failed final commit leaves failed_all_or_nothing unset
FinalCommitFailedUnflagged(X, ro) ==
  _attempt_rollback([SetFatal(X) EXCEPT !.hist.finalCommit = "failed"], ro)

\* the final commit or rollback of all-or-nothing mode
FinalCommitFailed(X, ro) ==
  _attempt_rollback(
    [SetFailed(SetFatal(X)) EXCEPT !.hist.finalCommit = "failed"], ro)

\* mutant: the final commit is attempted whatever the workflow reported
FinalCommitIgnoresFatal(X, co, ro) ==
  IF Usable(X.db)
  THEN LET c == Commit(X, co)
       IN  IF c.raised THEN FinalCommitFailed(c.x, ro)
           ELSE [c.x EXCEPT !.hist.finalCommit = "ok"]
  ELSE FinalCommitFailed(X, ro)

FinalCommit(X, co, ro) ==
  IF ~X.results.fatal_error_occurred
  THEN IF Usable(X.db)
       THEN LET c == Commit(X, co)
            IN  IF c.raised THEN FinalCommitFailed(c.x, ro)
                ELSE [c.x EXCEPT !.hist.finalCommit = "ok"]
       ELSE \* Connection closed before final commit could occur
            FinalCommitFailed(X, ro)
  ELSE [SetFailed(X) EXCEPT !.hist.finalCommit = "skipped"]

\* after the workflow returns: the final commit, the summary, return results
Finalize ==
  /\ pc = "finalizing"
  /\ \E co \in CommitOutcomes, ro \in RollbackOutcomes :
       LET X == IF mode = "all-or-nothing" THEN FinalCommit(Frame, co, ro) ELSE Frame
       IN  /\ Canonical([DefaultInput EXCEPT !.co = co, !.ro = ro], X.used)
           /\ Install([X EXCEPT !.hist.summary = TRUE])
  /\ ret' = "dict"
  /\ pc' = "finally"
  /\ UNCHANGED <<inputs, call, sorted_sql_files, idx, exitStatus, activeConn, report>>

\* results["unprocessed_files"] of the finally clause
Unprocessed(res, sorted) ==
  LET viewed == Range(res.processed) \cup Range(res.errors) \cup Range(res.empty_files)
  IN  SelectSeq(sorted, LAMBDA x : x \notin viewed)

ProcessedType(res) ==
  IF res.failed_all_or_nothing THEN "executable_files" ELSE "committed_files"

RECURSIVE Join(_)
\* "\n".join(map(str, paths)): the text of the paths, one per line
Join(paths) ==
  IF paths = <<>> THEN <<>>
  ELSE IF Len(paths) = 1 THEN paths[1]
  ELSE paths[1] \o <<"\n">> \o Join(Tail(paths))

\* mutant: an empty category is written as an empty body
ListingBodyNoPlaceholder(paths) == Join(paths)
\* the text written under the header of a listing:
\* "\n".join(map(str, results.get(suffix))) if results.get(suffix) else "None"
ListingBody(paths) == IF paths = <<>> THEN Placeholder ELSE Join(paths)

\* how far the writing of the report gets: k listings are written whole;
\* when k < 5 the next one is cut short: open() raised and there is no file
\* (n = -1), or a write or the close raised and the file holds the first n
\* characters of its body only, which may end inside a line.  Nothing is
\* written after that.  The last listing may be whole and its close raise
\* all the same (k = 4 and n the length of its body).  (Only the processed
\* listing tells n = -1 from n = 0: its file carries processed_type in its
\* name.)
WriteOutcomes(res) ==
  {[k |-> Len(WriteOrder), n |-> 0]} \cup
  (UNION {{[k |-> k, n |-> n] :
             n \in (IF k = 0 THEN -1 ELSE 0)..
                     (Len(ListingBody(res[WriteOrder[k + 1]]))
                        - (IF k + 1 = Len(WriteOrder) THEN 0 ELSE 1))} :
          k \in 0..(Len(WriteOrder) - 1)})

\* the report files after the writing got as far as o
WriteReport(res, o) ==
  [written |-> o.k = Len(WriteOrder),
   processed_type |-> IF o.k >= 1 \/ o.n >= 0 THEN ProcessedType(res) ELSE "none",
   listings |-> [c \in Categories |->
                   IF \E i \in 1..o.k : WriteOrder[i] = c
                   THEN ListingBody(res[c])
                   ELSE IF o.k < Len(WriteOrder) /\ WriteOrder[o.k + 1] = c /\ o.n >= 1
                   THEN SubSeq(ListingBody(res[c]), 1, o.n)
                   ELSE <<>>]]

\* the finally clause of execute_sql_scripts_in_dir
Finally ==
  /\ pc = "finally"
  /\ cursor' = [cursor EXCEPT !.closed = TRUE]
  /\ IF mode = "None"
     THEN \* transaction_mode.replace raises AttributeError outside the try:
          \* the exception takes the place of the value being returned
          /\ ret' = "raised"
          /\ UNCHANGED <<results, report, hist>>
     ELSE /\ results' = [results EXCEPT
                           !.unprocessed_files = Unprocessed(results, sorted_sql_files)]
          /\ \E o \in WriteOutcomes(results') :
               /\ report' = WriteReport(results', o)
               /\ IF o.k = Len(WriteOrder)
                  THEN hist' = [hist EXCEPT !.reporting = TRUE]
                  ELSE \* a failed write is one of the faults of the run
                       /\ hist.faults < MaxFaults
                       /\ hist' = [hist EXCEPT !.reporting = TRUE, !.faults = @ + 1]
          /\ ret' = ret
  /\ pc' = "returned"
  /\ UNCHANGED <<inputs, call, db, sorted_sql_files, idx, exitStatus, activeConn>>

\* mutant: the exit status ignores execution_successful
ExitCodeAlwaysZero(execution_successful) == 0

\* sys.exit(0 if execution_successful else 1)
ExitCode(execution_successful) == IF execution_successful THEN 0 ELSE 1

\* mutant: __main__ keeps the handle it got from the initial connect_db call
ActiveConnectionInitial(returned, held, initial) == initial

\* active_connection after the call: final_results_dict.get("connection",
\* active_connection) when a dict came back, else the initial handle
ActiveConnection(returned, held, initial) ==
  IF returned = "dict" THEN held ELSE initial

\* __main__ after execute_sql_scripts_in_dir returns
MainFinish ==
  /\ pc = "returned"
  /\ caller = "main"
  /\ \E ro \in RollbackOutcomes :
       LET \* a returned True has no .get: AttributeError, handled by the except
           raised == ret = "True"
           X == IF raised /\ activeConn # 0
                THEN _attempt_rollback(Frame, ro) ELSE Frame
           execution_successful ==
             ret = "dict" /\ ~results.fatal_error_occurred
           active == ActiveConnection(ret, X.db.conn, activeConn)
           toClose == active # 0 /\ active = X.db.conn /\ ~X.db.closed
       IN  /\ Canonical([DefaultInput EXCEPT !.ro = ro], X.used)
           /\ hist' = X.hist
           /\ db' = IF toClose THEN CloseConn(X.db) ELSE X.db
           /\ activeConn' = active
           /\ exitStatus' = ExitCode(execution_successful)
  /\ pc' = "done"
  /\ UNCHANGED <<inputs, call, cursor, results, sorted_sql_files, idx, ret, report>>

\* a direct caller takes the returned value
DirectReturn ==
  /\ pc = "returned"
  /\ caller = "direct"
  /\ pc' = "done"
  /\ UNCHANGED <<inputs, call, db, cursor, results, sorted_sql_files, idx, ret,
                 exitStatus, activeConn, report, hist>>

\* the server or the network drops the connection between two steps
ConnectionLost ==
  /\ pc \in {"dispatch", "executing", "finalizing"}
  /\ Usable(db)
  /\ hist.faults < MaxFaults
  /\ db' = CloseConn(db)
  /\ cursor' = CursorOfClosed(cursor, db)
  /\ hist' = [hist EXCEPT !.faults = @ + 1]
  /\ UNCHANGED <<inputs, call, pc, results, sorted_sql_files, idx, ret,
                 exitStatus, activeConn, report>>

Next ==
  \/ MainStart
  \/ OrchEnter
  \/ Scan
  \/ Dispatch
  \/ PerFileStep
  \/ UntilErrorStep
  \/ AllOrNothingStep
  \/ Finalize
  \/ Finally
  \/ MainFinish
  \/ DirectReturn
  \/ ConnectionLost

Spec == Init /\ [][Next]_vars

\* The steps of the program itself.  The interpreter runs the script to its
\* sys.exit: a step of the program that can be taken is taken.  Nothing is
\* assumed of the environment: the connection need never be lost.
Program ==
  \/ MainStart \/ OrchEnter \/ Scan \/ Dispatch
  \/ PerFileStep \/ UntilErrorStep \/ AllOrNothingStep
  \/ Finalize \/ Finally \/ MainFinish \/ DirectReturn

FairSpec == Spec /\ WF_vars(Program)

(***************************************************************************)
(* connect_db taken alone: one call under every sequence of outcomes of    *)
(* its attempt_limit connection attempts.  No run of the program is going  *)
(* on: the variables of run keep the values of Idle.                       *)
(***************************************************************************)
Idle ==
  /\ mode = "per-file" /\ caller = "direct" /\ is_dir = "False"
  /\ fs = [p \in Paths |-> "absent"]
  /\ pc = "idle"
  /\ db = NoConn /\ cursor = NoCursor /\ results = NoResults
  /\ sorted_sql_files = <<>> /\ idx = 1
  /\ ret = "none" /\ exitStatus = -1 /\ activeConn = 0
  /\ report = NoReport /\ hist = NoHist

InitConnect ==
  /\ Idle
  /\ \E o \in [1..attempt_limit -> ConnOutcomes] :
       call = [fn |-> "connect_db", outcomes |-> o, returned |-> FALSE,
               result |-> [ok |-> FALSE, attempts |-> 0, sleeps |-> 0]]

\* connect_db(params) runs to its return
Connect ==
  /\ call.fn = "connect_db"
  /\ ~call.returned
  /\ call' = [call EXCEPT !.returned = TRUE, !.result = connect_db(call.outcomes)]
  /\ UNCHANGED run

SpecConnect == InitConnect /\ [][Connect]_vars

(***************************************************************************)
(* natsorted taken alone: one call, with the as_posix key or without a     *)
(* key, on every listing os.walk may give of every set of the path names   *)
(* of PathList.                                                            *)
(***************************************************************************)
InitSort ==
  /\ Idle
  /\ \E S \in SUBSET Range(PathList) : \E w \in WalkOrders(S), k \in BOOLEAN :
       call = [fn |-> "natsorted", input |-> w, keyed |-> k,
               returned |-> FALSE, result |-> <<>>]

\* natsorted(sql_files_found, key=lambda p: p.as_posix()) and
\* natsorted(anomalies)
Sort ==
  /\ call.fn = "natsorted"
  /\ ~call.returned
  /\ \E r \in (IF call.keyed THEN {natsorted(call.input)}
                ELSE natsorted_no_key(call.input)) :
       call' = [call EXCEPT !.returned = TRUE, !.result = r]
  /\ UNCHANGED run

SpecSort == InitSort /\ [][Sort]_vars

(***************************************************************************)
(* _attempt_rollback taken alone: one call on a connection that is None or *)
(* not, closed or open, in each transaction status psycopg2 reports        *)
(* (0 idle, 1 active, 2 in transaction, 3 in error, 4 unknown), with       *)
(* statements pending when a transaction is open.                          *)
(***************************************************************************)
RollbackConns ==
  {[conn |-> c, closed |-> cl, status |-> st, pending |-> pd,
    durable |-> {}, lastId |-> 1, openConns |-> IF c # 0 /\ ~cl THEN {c} ELSE {}] :
     c \in {0, 1}, cl \in BOOLEAN,
     st \in TRANSACTION_STATUS_IDLE..TRANSACTION_STATUS_UNKNOWN,
     pd \in SUBSET Paths}

InitRollback ==
  /\ Idle
  /\ \E d \in RollbackConns, ro \in RollbackOutcomes :
       /\ d.pending # {} => d.status = TRANSACTION_STATUS_INTRANS
       /\ call = [fn |-> "_attempt_rollback", conn |-> d, ro |-> ro,
                  returned |-> FALSE, result |-> d, issued |-> FALSE]

\* _attempt_rollback(conn, context_msg) runs to its return
Rollback ==
  /\ call.fn = "_attempt_rollback"
  /\ ~call.returned
  /\ LET X == [Frame EXCEPT !.db = call.conn]
         Y == _attempt_rollback(X, call.ro)
     IN  call' = [call EXCEPT !.returned = TRUE, !.result = Y.db,
                              !.issued = Y.hist.rollbacks > X.hist.rollbacks]
  /\ UNCHANGED run

SpecRollback == InitRollback /\ [][Rollback]_vars

(***************************************************************************)
(* Vocabulary of the properties.                                           *)
(*   hist.ev[f] is what happened to the file f: "none", "empty",           *)
(*   "read_err", "exec_err", "commit_err", "conn_fail" (no connection      *)
(*   could be had for it), "executed" (all-or-nothing) or "committed".     *)
(***************************************************************************)
Done == pc = "done"
Ended == pc \in {"returned", "done"}
ErrorEvents == {"read_err", "exec_err", "commit_err"}
Raised(kinds) == {p \in Paths : hist.ev[p] \in kinds}
Position(f) == CHOOSE i \in 1..Len(sorted_sql_files) : sorted_sql_files[i] = f
After(f) == SubSeq(sorted_sql_files, Position(f) + 1, Len(sorted_sql_files))
Before(f) == SubSeq(sorted_sql_files, 1, Position(f) - 1)
AnomaliesFound == hist.scanned /\ Anomalies # {}
IsNatSorted(s) == \A i, j \in 1..Len(s) : i < j => ~NatLess(s[j], s[i])
NoDuplicates(s) == \A i, j \in 1..Len(s) : i # j => s[i] # s[j]

\* C1: in all-or-nothing mode, once a file has raised a read or execution
\* error no commit is ever issued and nothing is durable; at the end of the
\* run a rollback was attempted, both flags are set, errors is exactly that
\* file and every file after it in sorted order is unprocessed.
C1_AllOrNothingErrorRollsBack ==
  (mode = "all-or-nothing" /\ Raised({"read_err", "exec_err"}) # {}) =>
    /\ hist.commits = 0
    /\ db.durable = {}
    /\ hist.rollbackCalls >= 1
    /\ results.fatal_error_occurred
    /\ Cardinality(Raised({"read_err", "exec_err"})) = 1
    /\ Ended =>
         LET bad == CHOOSE p \in Paths : p \in Raised({"read_err", "exec_err"})
         IN  /\ results.failed_all_or_nothing
             /\ results.fatal_error_occurred
             /\ results.errors = <<bad>>
             /\ results.unprocessed_files = After(bad)
             /\ hist.finalCommit = "skipped"
             /\ report.processed_type # "committed_files"
             /\ report.listings["processed"] # <<>> =>
                  report.processed_type = "executable_files"

C1_Witness ==
  /\ Done /\ mode = "all-or-nothing"
  /\ Raised({"read_err", "exec_err"}) # {}
  /\ results.processed # <<>>
  /\ results.unprocessed_files # <<>>
  /\ report.processed_type = "executable_files"

\* C2: an all-or-nothing run that ends with both flags false has durably
\* committed every file of processed.
C2_CleanAllOrNothingRunIsDurable ==
  (Done /\ mode = "all-or-nothing" /\ ret = "dict"
        /\ ~results.failed_all_or_nothing /\ ~results.fatal_error_occurred) =>
    Range(results.processed) \subseteq db.durable

\* C3: in all-or-nothing mode, when every file executed cleanly and the final
\* commit did not succeed, both flags are set, a rollback was attempted, no
\* file is durable and the processed files are reported as executable, not
\* as committed.
AllExecutedCleanly ==
  /\ sorted_sql_files # <<>>
  /\ \A f \in Range(sorted_sql_files) : hist.ev[f] \in {"executed", "empty"}

C3_FailedFinalCommit ==
  (mode = "all-or-nothing" /\ Ended /\ ret = "dict" /\ AllExecutedCleanly
     /\ hist.finalCommit # "ok") =>
    /\ results.fatal_error_occurred
    /\ results.failed_all_or_nothing
    /\ hist.rollbackCalls >= 1
    /\ db.durable = {}
    /\ report.processed_type # "committed_files"
    /\ report.listings["processed"] # <<>> =>
         report.processed_type = "executable_files"

C3_Witness ==
  /\ Done /\ mode = "all-or-nothing" /\ AllExecutedCleanly
  /\ hist.finalCommit = "failed"
  /\ hist.commits = 1
  /\ Len(results.processed) >= 2
  /\ report.processed_type = "executable_files"

\* C4: in per-file-until-error mode the first failure (read, execution,
\* commit, or no connection to be had) ends the loop: processed is exactly
\* the non-empty files before it, each executed and committed, errors is
\* exactly the failing file, the files after it are unprocessed, none of them
\* was loaded or executed, and the run is fatal.
FailureEvents == ErrorEvents \cup {"conn_fail"}

C4_FirstFailureIsTerminal ==
  (mode = "per-file-until-error" /\ Raised(FailureEvents) # {}) =>
    /\ Cardinality(Raised(FailureEvents)) = 1
    /\ LET bad == CHOOSE p \in Paths : p \in Raised(FailureEvents)
       IN  /\ results.fatal_error_occurred
           /\ results.errors = <<bad>>
           /\ results.processed = SelectSeq(Before(bad), LAMBDA x : fs[x] # "empty")
           /\ \A x \in Range(results.processed) : hist.ev[x] = "committed"
           /\ results.empty_files = SelectSeq(Before(bad), LAMBDA x : fs[x] = "empty")
           /\ Range(hist.loaded) \cap Range(After(bad)) = {}
           /\ Range(hist.executed) \cap Range(After(bad)) = {}
           /\ Ended => results.unprocessed_files = After(bad)

C4_Witness ==
  /\ Done /\ mode = "per-file-until-error"
  /\ Raised(FailureEvents) # {}
  /\ results.processed # <<>>
  /\ results.unprocessed_files # <<>>

\* C5: in per-file mode a read, execution or commit failure of a file never
\* stops the loop and never sets fatal_error_occurred: the run is fatal only
\* when no connection could be had for a file, or when the orchestrator
\* itself raised before any file was looked at; as long as a connection can
\* be had every file is visited, each committed file is in processed, each
\* failing file is in errors, nothing is unprocessed and the run is not
\* fatal.
C5_PerFileFailuresAreAbsorbed ==
  (mode = "per-file" /\ Ended /\ ret = "dict") =>
    /\ results.fatal_error_occurred => (hist.exhausted \/ hist.orchError)
    /\ hist.orchError => sorted_sql_files = <<>> /\ hist.loaded = <<>>
    /\ (hist.scanned /\ ~hist.exhausted) => ~results.fatal_error_occurred
    /\ results.processed =
         SelectSeq(sorted_sql_files, LAMBDA x : hist.ev[x] = "committed")
    /\ results.errors =
         SelectSeq(sorted_sql_files, LAMBDA x : hist.ev[x] \in ErrorEvents)
    /\ ~hist.exhausted =>
         /\ hist.loaded = sorted_sql_files
         /\ results.unprocessed_files = <<>>
         /\ \A f \in Range(sorted_sql_files) :
              hist.ev[f] \in ErrorEvents \cup {"committed", "empty"}

C5_Witness ==
  /\ Done /\ mode = "per-file" /\ ~results.fatal_error_occurred
  /\ \E i, j \in 1..Len(sorted_sql_files) :
       /\ i < j
       /\ hist.ev[sorted_sql_files[i]] \in ErrorEvents
       /\ sorted_sql_files[j] \in Range(results.processed)

\* C6: at the end of every run processed, errors, empty_files and
\* unprocessed_files are pairwise disjoint and their union is the set of
\* discovered valid script files.
Discovered == IF hist.scanned THEN ValidFiles ELSE {}

C6_OutcomesPartitionDiscovered ==
  Ended =>
    LET all == results.processed \o results.errors \o results.empty_files
                 \o results.unprocessed_files
    IN  NoDuplicates(all) /\ Range(all) = Discovered

\* C7 as stated: in all-or-nothing and per-file-until-error mode, when the
\* scan finds anomalies no connection attempt is made at any point of the run.
C7_NoConnectionAttemptWhenAnomalies ==
  (mode \in {"all-or-nothing", "per-file-until-error"} /\ AnomaliesFound) =>
    hist.connects = 0

\* C7 amended: in all-or-nothing and per-file-until-error mode, once the scan
\* has found anomalies no connection attempt follows: there is no reconnect,
\* and the only connect_db call of the run is the initial one that __main__
\* makes before the scan.
C7_NoConnectionAttemptAfterAnomalies ==
  (mode \in {"all-or-nothing", "per-file-until-error"} /\ AnomaliesFound) =>
    /\ hist.reconnects = 0
    /\ hist.connects = IF caller = "main" THEN 1 ELSE 0
    /\ db.lastId = 1

C7_Witness ==
  /\ Done /\ caller = "main" /\ mode = "per-file-until-error"
  /\ AnomaliesFound /\ ValidFiles # {}
  /\ hist.connects = 1

C9_PerFileToleratesAnomalies ==
  (mode = "per-file" /\ AnomaliesFound) =>
    /\ Range(results.file_anomalies) = Anomalies
    /\ Range(sorted_sql_files) = ValidFiles
    /\ \A a \in Anomalies :
         a \notin Range(results.errors) \cup Range(results.processed)
                    \cup Range(results.empty_files)
                    \cup Range(results.unprocessed_files)
    /\ results.fatal_error_occurred => hist.exhausted
    /\ (Ended /\ ValidFiles # {}) =>
         /\ ret = "dict"
         /\ ~hist.exhausted => hist.loaded = sorted_sql_files

C9_Witness ==
  /\ Done /\ mode = "per-file" /\ AnomaliesFound
  /\ results.processed # <<>>
  /\ ~results.fatal_error_occurred

\* C10: the process exits with status 0 only if no fatal condition occurred:
\* an unreachable database (at the start or in the run), a halted batch, an
\* anomaly-gated run, a failed final commit, a directory that is missing or
\* cannot be examined and an
\* unknown mode all give a non-zero status.
FatalCondition ==
  \/ hist.connects >= 1 /\ db.lastId = 0
  \/ hist.exhausted
  \/ mode \in {"all-or-nothing", "per-file-until-error"} /\ Raised(FailureEvents) # {}
  \/ mode \in {"all-or-nothing", "per-file-until-error"} /\ AnomaliesFound
  \/ mode = "all-or-nothing" /\ hist.finalCommit \in {"failed", "skipped"}
  \/ is_dir # "True"
  \/ mode \notin Modes

C10_ExitZeroOnlyWithoutFatal ==
  (Done /\ caller = "main") =>
    /\ exitStatus \in {0, 1, 2}
    /\ exitStatus = 0 => ~FatalCondition /\ ~results.fatal_error_occurred
    /\ (FatalCondition \/ results.fatal_error_occurred) => exitStatus # 0

C10_Witness ==
  /\ Done /\ caller = "main" /\ exitStatus = 0
  /\ mode = "per-file" /\ results.errors # <<>>

(***************************************************************************)
(* Units of work.  A step from executing that records what happened to a   *)
(* file is one pass of a loop over sorted_sql_files[idx]; the commits and  *)
(* rollback calls of the pass are the growth of the counters of hist.      *)
(***************************************************************************)
PassStep == pc = "executing" /\ hist'.ev # hist.ev
PassFile == sorted_sql_files[idx]
PassCommits == hist'.commits - hist.commits
PassRollbackCalls == hist'.rollbackCalls - hist.rollbackCalls
PerFileModes == {"per-file", "per-file-until-error"}
BatchEnds == pc = "finalizing" /\ pc' = "finally" /\ mode = "all-or-nothing"

\* C11 as stated: every unit of work (a file in the per-file modes, the batch
\* in all-or-nothing mode) attempts exactly one of commit and rollback, or
\* none when the connection is unusable.
C11_ExactlyOneOfCommitRollback ==
  [][/\ (PassStep /\ mode \in PerFileModes) =>
          \/ PassCommits + PassRollbackCalls = 1
          \/ PassCommits + PassRollbackCalls = 0 /\ ~Usable(db')
     /\ BatchEnds =>
          \/ hist'.commits + hist'.rollbackCalls = 1
          \/ hist'.commits + hist'.rollbackCalls = 0 /\ ~Usable(db')]_vars

\* per-file mode: a file that cannot be read is recorded in errors on a usable
\* connection, and neither a commit nor a rollback is attempted for it
C11_ReadErrorAttemptsNeither ==
  /\ Done /\ mode = "per-file"
  /\ sorted_sql_files = << <<"f", "1">> >> /\ fs[<<"f", "1">>] = "unreadable"
  /\ hist.ev[<<"f", "1">>] = "read_err"
  /\ results.errors = << <<"f", "1">> >>
  /\ hist.faults = 0 /\ hist.reconnects = 0 /\ db.lastId = 1
  /\ hist.commits = 0 /\ hist.rollbackCalls = 0

\* C12: in every mode the step in which a commit fails (the commit of a file
\* in the per-file modes, the final commit in all-or-nothing mode) also calls
\* _attempt_rollback, on the connection the commit was tried on, before the
\* next file or the report; the file is recorded in errors and never in
\* processed, and the batch is reported as executable, never as committed.
C12_FailedCommitIsRolledBack ==
  [][/\ (PassStep /\ hist'.ev[PassFile] = "commit_err") =>
          /\ mode \in PerFileModes
          /\ PassCommits = 1
          /\ PassRollbackCalls = 1
          /\ db'.conn = cursor'.conn
          /\ db'.durable = db.durable
     /\ (BatchEnds /\ hist'.finalCommit = "failed") =>
          /\ hist'.rollbackCalls = hist.rollbackCalls + 1
          /\ db'.conn = db.conn
          /\ db'.durable = {}
          /\ results'.failed_all_or_nothing /\ results'.fatal_error_occurred
     /\ \A f \in Paths : hist'.ev[f] = "commit_err" =>
          /\ f \notin Range(results'.processed)
          /\ f \in Range(results'.errors)
          /\ f \notin db'.durable
     /\ (hist'.finalCommit = "failed" /\ report'.written) =>
          report'.processed_type = "executable_files"]_vars

C12_Witness ==
  /\ Done /\ mode = "per-file-until-error"
  /\ Raised({"commit_err"}) # {}
  /\ hist.commits = 2 /\ hist.rollbackCalls = 1
  /\ Len(results.processed) = 1

\* C13: connect_db makes between 1 and attempt_limit connection attempts;
\* every attempt but the last failed with a recoverable error and was
\* followed by one sleep, so a call of k attempts sleeps k - 1 times and
\* never after its last attempt; it returns the connection exactly when its
\* last attempt succeeded, which is the first successful one, and None when
\* all attempt_limit attempts fail.
C13_ConnectRetriesWithinLimit ==
  (call.fn = "connect_db" /\ call.returned) =>
    LET r == call.result
        o == call.outcomes
    IN  /\ r.attempts \in 1..attempt_limit
        /\ \A i \in 1..(r.attempts - 1) : o[i] = "op"
        /\ r.sleeps = r.attempts - 1
        /\ r.ok <=> o[r.attempts] = "ok"
        /\ (\A i \in 1..attempt_limit : o[i] = "op") =>
             ~r.ok /\ r.attempts = attempt_limit /\ r.sleeps = attempt_limit - 1
        /\ (\A i \in 1..attempt_limit : o[i] # "ok") => ~r.ok

C13_Witness ==
  /\ call.fn = "connect_db" /\ call.returned
  /\ call.result.ok /\ call.result.attempts = 3 /\ call.result.sleeps = 2
  /\ call.outcomes[4] = "ok"

\* C14: when an attempt of connect_db fails with an error that is not an
\* OperationalError, that attempt is the last: no attempt and no sleep
\* follows it, whatever the later attempts would have met, and None is
\* returned.
C14_UnexpectedErrorAborts ==
  (call.fn = "connect_db" /\ call.returned) =>
    \A k \in 1..attempt_limit :
      (call.outcomes[k] = "fatal" /\ \A i \in 1..(k - 1) : call.outcomes[i] = "op") =>
        /\ ~call.result.ok
        /\ call.result.attempts = k
        /\ call.result.sleeps = k - 1

C14_Witness ==
  /\ call.fn = "connect_db" /\ call.returned
  /\ call.outcomes[1] = "op" /\ call.outcomes[2] = "fatal" /\ call.outcomes[3] = "ok"
  /\ ~call.result.ok /\ call.result.attempts = 2 /\ call.result.sleeps = 1

\* C15: a pass of any loop that finds its connection non-null and open makes
\* no connect_db call and works on that same connection; a pass that finds
\* it closed or None makes exactly one connect_db call and holds what that
\* call returned, a fresh connection or None.  In per-file and
\* per-file-until-error mode a pass that reconnected processes its file, and
\* the run is fatal after it only if it already was or the file itself
\* raised.
C15_EnsureConnectionBeforeEachFile ==
  [][PassStep =>
       /\ Usable(db) =>
            /\ hist'.connects = hist.connects
            /\ db'.conn = db.conn /\ db'.lastId = db.lastId
       /\ ~Usable(db) =>
            /\ hist'.connects = hist.connects + 1
            /\ db'.lastId \in {db.lastId, db.lastId + 1}
            /\ db'.conn = (IF db'.lastId > db.lastId THEN db'.lastId ELSE 0)
            /\ hist'.ev[PassFile] = "conn_fail" <=> db'.conn = 0
       /\ (~Usable(db) /\ db'.conn # 0 /\ mode \in PerFileModes) =>
            /\ hist'.ev[PassFile] \in
                 {"empty", "read_err", "exec_err", "commit_err", "committed"}
            /\ results'.fatal_error_occurred =>
                 \/ results.fatal_error_occurred
                 \/ mode = "per-file-until-error" /\ hist'.ev[PassFile] \in ErrorEvents]_vars

C15_Witness ==
  /\ Done /\ mode = "per-file" /\ caller = "main"
  /\ hist.connects = 2 /\ db.lastId = 2
  /\ ~results.fatal_error_occurred
  /\ Len(results.processed) = Len(sorted_sql_files)
  /\ Len(sorted_sql_files) >= 2
  /\ db.durable = Range(results.processed)

IsPrefix(s, t) == Len(s) <= Len(t) /\ SubSeq(t, 1, Len(s)) = s
\* the files of the list the loop did not work on
NotWorkedOn == {p \in Range(sorted_sql_files) : hist.ev[p] \in {"none", "conn_fail"}}
\* what is recorded for a file agrees with what happened to it
RecordedAs(p) ==
  /\ p \in Range(results.processed) <=> hist.ev[p] \in {"committed", "executed"}
  /\ p \in Range(results.empty_files) <=> hist.ev[p] = "empty"
  /\ hist.ev[p] \in ErrorEvents => p \in Range(results.errors)

PerFileLoopEnd ==
  (mode = "per-file" /\ Ended /\ hist.summary) =>
    /\ NotWorkedOn # {} <=> hist.exhausted
    /\ hist.exhausted <=> results.fatal_error_occurred
    /\ hist.exhausted =>
         /\ Cardinality(Raised({"conn_fail"})) = 1
         /\ LET lost == CHOOSE p \in Paths : hist.ev[p] = "conn_fail"
            IN  /\ results.unprocessed_files = <<lost>> \o After(lost)
                /\ \A i \in 1..Len(Before(lost)) :
                     /\ hist.ev[Before(lost)[i]] \in
                          {"empty", "read_err", "exec_err", "commit_err", "committed"}
                     /\ RecordedAs(Before(lost)[i])
    /\ ~hist.exhausted =>
         /\ results.unprocessed_files = <<>>
         /\ \A p \in Range(sorted_sql_files) : RecordedAs(p)

\* C16: in per-file mode the loop leaves files of the list unvisited if and
\* only if a reconnect was exhausted (_ensure_connection returned None).
\* Then fatal_error_occurred is set, what was recorded for the files visited
\* before stays as it was, and the file the connection could not be had for
\* and every file after it are the unprocessed files.  No pass of the loop
\* changes what an earlier pass recorded.
C16_PerFileStopsOnlyWhenExhausted ==
  [][/\ PerFileLoopEnd'
     /\ (mode = "per-file" /\ PassStep) =>
          /\ IsPrefix(results.processed, results'.processed)
          /\ IsPrefix(results.errors, results'.errors)
          /\ IsPrefix(results.empty_files, results'.empty_files)
          /\ \A p \in Paths : p # PassFile => hist'.ev[p] = hist.ev[p]
          /\ (pc' = "finalizing" /\ idx < Len(sorted_sql_files)) <=>
               (hist'.ev[PassFile] = "conn_fail" /\ idx < Len(sorted_sql_files))]_vars

C16_Witness ==
  /\ Done /\ mode = "per-file" /\ hist.exhausted
  /\ Len(results.processed) = 1 /\ Len(results.unprocessed_files) = 2
  /\ results.fatal_error_occurred

PcRank(p) ==
  CASE p = "main" -> 0 [] p = "orch" -> 1 [] p = "scanning" -> 2
    [] p = "dispatch" -> 3 [] p = "executing" -> 4 [] p = "finalizing" -> 5
    [] p = "finally" -> 6 [] p = "returned" -> 7 [] p = "done" -> 8

\* C17 as stated, for the runs of __main__ in a known mode: the run is in
\* done only after reporting.
C17_EveryRunReports ==
  (Done /\ caller = "main" /\ mode \in Modes) => report.written

\* C17: every run reaches done and stays there.  On the way it never goes
\* back to an earlier stage, works through the list front to back with no
\* file loaded twice, makes at most one connect_db call per pass and no
\* connect_db call makes more than attempt_limit attempts.  A run that was
\* given or has established a connection reaches the reporting of the
\* finally clause, after the workflow and before done, and no other run
\* does: a run whose initial connect_db fails goes to done without
\* reporting.  (A call with transaction_mode None raises before the
\* reporting.)  The reporting may fail to write its files.
C17_RunTerminatesAfterOnePass ==
  /\ <>[]Done
  /\ [](Done => (hist.reporting <=> (db.lastId >= 1 /\ mode # "None")))
  /\ [][/\ ~Done
        /\ PcRank(pc') >= PcRank(pc)
        /\ idx' >= idx
        /\ NoDuplicates(hist'.loaded)
        /\ IsPrefix(hist.loaded, hist'.loaded)
        /\ Len(hist'.loaded) <= Len(hist.loaded) + 1
        /\ Len(hist'.loaded) <= Len(sorted_sql_files')
        /\ hist'.connects <= hist.connects + 1
        /\ ~hist'.overLimit
        /\ hist'.reporting # hist.reporting =>
             pc = "finally" /\ pc' = "returned" /\ db.lastId >= 1
        /\ report' # report => pc = "finally" /\ hist'.reporting
        /\ report'.written => PcRank(pc') >= PcRank("returned")]_vars

C17_Witness ==
  /\ Done /\ report.written
  /\ hist.exhausted /\ hist.rollbackFailed
  /\ Raised({"read_err"}) # {} /\ Raised({"exec_err"}) # {}

\* C18 as stated: every run that went through execute_sql_scripts_in_dir, by
\* whatever exit path, has logged the execution summary when it is done.
C18_EveryExitPathEmitsSummary ==
  (Done /\ report.written) => hist.summary

C18_SummarySkipped ==
  /\ Done /\ caller = "main" /\ hist.gated /\ ~hist.summary
  /\ report.written /\ exitStatus = 1

\* C19 as stated, for the runs of __main__ in a known mode: a run that is
\* done has written its five listings.
C19_EveryRunWritesListings ==
  (Done /\ caller = "main" /\ mode \in Modes) =>
    \A c \in Categories : report.listings[c] # <<>>

\* the text a listing has when it is written whole
ExpectedBody(paths) == IF paths = <<>> THEN Placeholder ELSE Join(paths)

RECURSIVE Lines(_)
\* the lines of a text: what lies between its newline characters
Lines(t) ==
  LET nl == {i \in 1..Len(t) : t[i] = "\n"}
  IN  IF nl = {} THEN <<t>>
      ELSE LET i == CHOOSE i \in nl : \A j \in nl : i <= j
           IN  <<SubSeq(t, 1, i - 1)>> \o Lines(SubSeq(t, i + 1, Len(t)))

\* the listing of category c holds the paths of c in results, one per line
\* and in the same order, or the marker None when there is none
WholeListing(c) ==
  IF results[c] = <<>> THEN report.listings[c] = Placeholder
  ELSE Lines(report.listings[c]) = results[c]

\* C19: listings are written only by the runs that established a
\* connection, on every path such a run takes, and all five of them unless
\* writing one raises, which ends the writing.  Each listing written whole
\* holds the paths of its category in the final results, one per line and in
\* the same order, and the marker None when the category is empty; the
\* listing at which the writing failed holds a beginning of that text, which
\* may end inside a line, and no later listing has any.  The processed
\* listing is named executable_files after a failed all-or-nothing batch and
\* committed_files otherwise.
C19_ListingsMatchResults ==
  Done =>
    /\ db.lastId = 0 => \A c \in Categories : report.listings[c] = <<>>
    /\ (db.lastId >= 1 /\ mode # "None") => hist.reporting
    /\ report.written => \A c \in Categories : WholeListing(c)
    /\ \A c \in Categories :
         IsPrefix(report.listings[c], ExpectedBody(results[c]))
    /\ \A i, j \in 1..Len(WriteOrder) :
         (i < j /\ report.listings[WriteOrder[j]] # <<>>) =>
           WholeListing(WriteOrder[i])
    /\ report.listings["processed"] # <<>> =>
         report.processed_type =
           (IF results.failed_all_or_nothing
            THEN "executable_files" ELSE "committed_files")

C19_Witness ==
  /\ Done /\ report.written /\ mode = "per-file"
  /\ Len(results.processed) = 2 /\ Len(results.errors) = 1
  /\ Lines(report.listings["processed"]) = results.processed
  /\ Lines(report.listings["errors"]) = results.errors
  /\ report.listings["empty_files"] = Placeholder
  /\ report.listings["unprocessed_files"] = Placeholder

\* C20 as stated: natsorted returns a permutation of its input in which a
\* path comes before another when its key is less (digit runs by value, the
\* other segments by code point), paths of equal keys stand in the order of
\* their full strings, and the result is the same for every order the input
\* is listed in.
C20_NaturalSortIsTotalAndDeterministic ==
  (call.fn = "natsorted" /\ call.returned) =>
    LET r == call.result
    IN  /\ Len(r) = Len(call.input) /\ Range(r) = Range(call.input)
        /\ \A i, j \in 1..Len(r) : i < j =>
             /\ ~NatLess(r[j], r[i])
             /\ ~NatLess(r[i], r[j]) => StrLess(r[i], r[j])
        /\ \A v \in WalkOrders(Range(call.input)) : natsorted(v) = r

C20_TieKeepsWalkOrder ==
  /\ call.fn = "natsorted" /\ call.returned
  /\ call.input = << <<"f", "1">>, <<"f", "2">>, <<"f", "0", "1">> >>
  /\ call.result = << <<"f", "1">>, <<"f", "0", "1">>, <<"f", "2">> >>
  /\ natsorted(<< <<"f", "0", "1">>, <<"f", "2">>, <<"f", "1">> >>)
       = << <<"f", "0", "1">>, <<"f", "1">>, <<"f", "2">> >>

\* C21: in every mode a pass that got a connection and read an empty or
\* all-whitespace file records it in empty_files and nowhere else, executes
\* nothing and leaves the transaction of the connection it holds as it was
\* (idle on a connection the pass has just opened), sets no flag and does not
\* leave the loop; a file that cannot be read or decoded is recorded in
\* errors and never in empty_files.  Only empty files are in empty_files.
C21_EmptyFilesAreSkipped ==
  [][/\ (PassStep /\ hist'.ev[PassFile] # "conn_fail" /\ fs[PassFile] = "empty") =>
          /\ hist'.ev[PassFile] = "empty"
          /\ results'.empty_files = Append(results.empty_files, PassFile)
          /\ results'.errors = results.errors
          /\ results'.processed = results.processed
          /\ hist'.executed = hist.executed
          /\ Usable(db) => db' = db
          /\ ~Usable(db) => db'.pending = {} /\ db'.status = TRANSACTION_STATUS_IDLE
          /\ db'.durable = db.durable
          /\ PassCommits = 0 /\ PassRollbackCalls = 0
          /\ results'.fatal_error_occurred = results.fatal_error_occurred
          /\ results'.failed_all_or_nothing = results.failed_all_or_nothing
          /\ pc' = (IF idx = Len(sorted_sql_files) THEN "finalizing" ELSE "executing")
     /\ (PassStep /\ hist'.ev[PassFile] # "conn_fail" /\ fs[PassFile] = "unreadable") =>
          /\ hist'.ev[PassFile] = "read_err"
          /\ results'.errors = Append(results.errors, PassFile)
          /\ results'.empty_files = results.empty_files
          /\ hist'.executed = hist.executed
     /\ \A i \in 1..Len(results'.empty_files) : fs[results'.empty_files[i]] = "empty"]_vars

C21_Witness ==
  /\ Done /\ mode = "per-file-until-error"
  /\ Len(results.empty_files) = 1 /\ Len(results.processed) = 2
  /\ sorted_sql_files[2] = results.empty_files[1]
  /\ ~results.fatal_error_occurred

\* what a caller sees of a frame: the outcome lists and the two flags
Outcome(X) ==
  [processed |-> X.results.processed, errors |-> X.results.errors,
   empty_files |-> X.results.empty_files,
   unprocessed_files |-> Unprocessed(X.results, sorted_sql_files),
   fatal_error_occurred |-> X.results.fatal_error_occurred,
   failed_all_or_nothing |-> X.results.failed_all_or_nothing]

\* C22 as stated: from every state of a loop, the rest of the loop ends with
\* the same outcome lists and flags whether every rollback it attempts
\* succeeds or every rollback it attempts fails (nothing else going wrong).
C22_RollbackFailureChangesNothing ==
  (pc = "executing" /\ mode \in Modes /\ idx <= Len(sorted_sql_files)) =>
    Outcome(RunLoop(mode, Frame, idx, [DefaultInput EXCEPT !.ro = "fail"]))
      = Outcome(RunLoop(mode, Frame, idx, DefaultInput))

C22_FailedRollbackPoisonsNextFile ==
  /\ Done /\ mode = "per-file" /\ hist.rollbackFailed /\ hist.faults = 0
  /\ \E f \in Paths : fs[f] = "ok" /\ hist.ev[f] = "exec_err"

\* C23: _attempt_rollback issues conn.rollback() exactly when the
\* connection is not None, is open and its transaction status is in
\* transaction or in error; in every other status, and on a closed or
\* absent connection, it leaves the connection and its transaction as they
\* were.  A rollback that succeeds leaves the connection idle with nothing
\* pending; one that raises changes nothing.
C23_RollbackOnlyInOpenTransaction ==
  (call.fn = "_attempt_rollback" /\ call.returned) =>
    LET d == call.conn
        open == d.conn # 0 /\ ~d.closed
        inTx == d.status \in {TRANSACTION_STATUS_INTRANS, TRANSACTION_STATUS_INERROR}
    IN  /\ call.issued <=> (open /\ inTx)
        /\ ~call.issued => call.result = d
        /\ (call.issued /\ call.ro = "ok") =>
             call.result = [d EXCEPT !.status = TRANSACTION_STATUS_IDLE, !.pending = {}]
        /\ (call.issued /\ call.ro = "fail") => call.result = d

C23_Witness ==
  /\ call.fn = "_attempt_rollback" /\ call.returned
  /\ call.conn.conn = 1 /\ ~call.conn.closed
  /\ call.conn.status = TRANSACTION_STATUS_IDLE
  /\ ~call.issued /\ call.result = call.conn

\* C24: in all-or-nothing mode conn.commit() is called at most once in a
\* run, and only by the orchestrator once the workflow has returned: never
\* while the loop over the files is running, and only when every file of the
\* sorted list was executed or found empty and none is recorded in errors.
\* When a file failed, or the workflow set fatal_error_occurred, no commit is
\* called at all.
C24_AllOrNothingCommitsOnceAtTheEnd ==
  mode = "all-or-nothing" =>
    /\ hist.commits <= 1
    /\ hist.commits = 1 =>
         /\ PcRank(pc) > PcRank("finalizing")
         /\ AllExecutedCleanly
         /\ results.errors = <<>>
         /\ hist.finalCommit \in {"ok", "failed"}
    /\ (Raised(FailureEvents) # {} \/ results.errors # <<>>) => hist.commits = 0
    /\ (results.fatal_error_occurred /\ hist.finalCommit # "failed") =>
         hist.commits = 0

C24_Witness ==
  /\ Done /\ mode = "all-or-nothing"
  /\ hist.commits = 1 /\ hist.finalCommit = "ok"
  /\ Len(results.processed) >= 2 /\ results.empty_files # <<>>

IsSubsequence(s, t) ==
  \E g \in [1..Len(s) -> 1..Len(t)] :
    /\ \A i \in 1..Len(s) : s[i] = t[g[i]]
    /\ \A i, j \in 1..Len(s) : i < j => g[i] < g[j]
Viewed == Range(results.processed) \cup Range(results.errors)
            \cup Range(results.empty_files)
HandledInSortedOrder ==
  /\ \A i, j \in 1..Len(sorted_sql_files) :
       (i < j /\ sorted_sql_files[j] \in Range(hist.loaded) \cup Range(hist.executed))
         => sorted_sql_files[i] \in Viewed
  /\ NoDuplicates(hist.loaded) /\ NoDuplicates(hist.executed)
  /\ IsSubsequence(hist.loaded, sorted_sql_files)
  /\ IsSubsequence(hist.executed, hist.loaded)
  /\ IsSubsequence(results.processed, sorted_sql_files)
  /\ IsSubsequence(results.errors, sorted_sql_files)
  /\ IsSubsequence(results.empty_files, sorted_sql_files)

\* C25: in every mode and in every state of a run the files are handled in
\* the order of the sorted list, one at a time: a file is loaded or executed
\* only when every file before it in the sorted list is in processed, errors
\* or empty_files; no file is loaded or executed twice; and processed, errors
\* and empty_files are subsequences of the sorted list.
C25_FilesHandledInSortedOrder == mode \in Modes => HandledInSortedOrder

\* the anomaly gate: errors holds paths that are not in the sorted list
C25_GatedErrorsOutsideSortedList ==
  /\ Done /\ hist.gated /\ ValidFiles # {}
  /\ sorted_sql_files = <<>> /\ results.errors # <<>>
  /\ ~IsSubsequence(results.errors, sorted_sql_files)
  /\ hist.loaded = <<>>

\* C26: in every state of a run at most one connection is open, and it is
\* the one the workflow holds; at most one cursor is open, and in the
\* per-file modes none is open between two files; and cursor.execute is
\* never called on a cursor of another connection than the one the workflow
\* holds at that moment.
C26_OneConnectionOneCursor ==
  mode \in Modes =>
    /\ Cardinality(db.openConns) <= 1
    /\ db.openConns \subseteq {db.conn}
    /\ (mode \in PerFileModes /\ pc = "executing") => ~CursorOpen(cursor)
    /\ ~hist.staleExec

\* all-or-nothing: a file is executed on the cursor of the lost connection
C26_ExecuteOnStaleCursor ==
  /\ Done /\ mode = "all-or-nothing"
  /\ hist.reconnects = 1 /\ hist.staleExec
  /\ cursor.conn # db.conn /\ db.conn # 0
  /\ Raised({"exec_err"}) # {}

\* C27: in per-file and per-file-until-error mode, in every state of a run
\* and whatever commits, rollbacks and reconnections came before, the files
\* whose statements are durably committed are exactly the files of
\* processed: no file of errors, empty_files or of the files not yet (or
\* never) worked on is committed, and every file of processed is.
C27_DurableIsExactlyProcessed ==
  mode \in PerFileModes =>
    /\ db.durable = Range(results.processed)
    /\ db.durable \cap (Range(results.errors) \cup Range(results.empty_files)) = {}
    /\ db.durable \cap Range(Unprocessed(results, sorted_sql_files)) = {}
    /\ \A p \in Paths : hist.ev[p] \in FailureEvents => p \notin db.durable

\* a file fails and its rollback fails too, the connection is then lost and
\* replaced, and a later file is committed
C27_Witness ==
  /\ Done /\ mode = "per-file"
  /\ hist.rollbackFailed /\ hist.reconnects >= 1
  /\ results.errors # <<>> /\ results.processed # <<>>
  /\ \E i, j \in 1..Len(sorted_sql_files) :
       /\ i < j
       /\ sorted_sql_files[i] \in Range(results.errors)
       /\ sorted_sql_files[j] \in db.durable
  /\ db.durable = Range(results.processed)

\* C28: at the end of every run failed_all_or_nothing implies
\* fatal_error_occurred and all-or-nothing mode; and in all-or-nothing mode
\* fatal_error_occurred implies failed_all_or_nothing on every exit path, so
\* that the report of a fatal all-or-nothing run never lists processed as
\* committed files.
C28_FlagsAgreeInAllOrNothing ==
  Ended =>
    /\ results.failed_all_or_nothing =>
         results.fatal_error_occurred /\ mode = "all-or-nothing"
    /\ (mode = "all-or-nothing" /\ results.fatal_error_occurred) =>
         /\ results.failed_all_or_nothing
         /\ report.written => report.processed_type = "executable_files"

\* the anomaly gate of all-or-nothing mode: fatal, and reported as committed
C28_GatedRunReportsCommitted ==
  /\ Done /\ mode = "all-or-nothing" /\ hist.gated
  /\ results.fatal_error_occurred /\ ~results.failed_all_or_nothing
  /\ report.written /\ report.processed_type = "committed_files"

\* C29: a run of __main__ in which no fatal condition occurs exits with
\* status 0, in every mode; in particular a run over an existing directory
\* without valid script files, after a successful initial connection, exits
\* with status 0.
C29_NoFatalConditionExitsZero ==
  (Done /\ caller = "main" /\ ~FatalCondition /\ ~results.fatal_error_occurred) =>
    exitStatus = 0

\* nothing to execute: the orchestrator returns True and __main__ exits 1
C29_NothingToExecuteExitsOne ==
  /\ Done /\ caller = "main" /\ mode \in Modes /\ is_dir = "True"
  /\ hist.connects = 1 /\ db.lastId = 1
  /\ hist.scanned /\ ValidFiles = {} /\ Anomalies = {}
  /\ ret = "True" /\ ~results.fatal_error_occurred
  /\ exitStatus = 1

\* C30: when a run of __main__ has exited no connection opened during the
\* run is open: the handle the orchestrator returned, a replacement obtained
\* by reconnection included, is the one __main__ holds and has closed; after
\* an exception caught by the orchestrator the handle returned is the one it
\* was given, and after a boolean return or an exception in __main__ the
\* initial handle is closed.
C30_NoConnectionLeftOpen ==
  (Done /\ caller = "main") =>
    /\ db.openConns = {}
    /\ db.conn # 0 => db.closed
    /\ (ret = "dict" /\ db.conn # 0) => activeConn = db.conn
    /\ hist.orchError => ret = "dict" /\ activeConn = 1 /\ db.lastId = 1
    /\ ret \in {"True", "False"} => activeConn = 1 /\ db.lastId = 1

\* the connection dropped, the workflow reconnected, and the replacement was
\* the connection closed at the end
C30_Witness ==
  /\ Done /\ caller = "main" /\ ret = "dict"
  /\ hist.reconnects >= 1 /\ db.lastId = 2
  /\ activeConn = 2 /\ db.conn = 2 /\ db.closed
  /\ db.openConns = {}
  /\ ~results.fatal_error_occurred

====
